---- MODULE Spec2Model ----
(***************************************************************************)
(* Model of app.py, the internal link analysis dashboard: the URL          *)
(* decomposer, the anchor bucketizer and the row expander of prepare_data  *)
(* and expand_anchor_texts, the three tabs of the dashboard, and the       *)
(* module-level load / prepare / expand sequence of the script.            *)
(*                                                                         *)
(* Python strings are sequences of one-character strings.  A missing cell  *)
(* of the CSV (pandas NaN) is the value NaN, Python's None is the value    *)
(* None.                                                                   *)
(***************************************************************************)
EXTENDS Integers, Sequences, FiniteSets, TLC

VARIABLES
    pc,                 \* position of the script run
    uploaded_file,      \* the file in the first uploader (line 111)
    local_csv,          \* lumar_internal_links.csv next to the script (line 108)
    uploaded_file_2,    \* the file in the second uploader (line 216)
    df,                 \* the table: a sequence of rows, each a record of cells
    df_expanded,        \* the one-row-per-anchor table
    selected_subdomain, \* sidebar selectbox
    filtered_df,
    anchor_counts,      \* tab 1: bucket -> number of rows
    search_term,        \* tab 2: text input
    search_results,
    missing_anchor_df,  \* tab 3
    raised,             \* the exception that ended the run, "" if none
    called              \* the pipeline steps the run has executed, in order

vars == <<pc, uploaded_file, local_csv, uploaded_file_2, df, df_expanded,
          selected_subdomain, filtered_df, anchor_counts, search_term,
          search_results, missing_anchor_df, raised, called>>

----------------------------------------------------------------------------
(* Values *)

NaN == <<"NaN">>

None == <<"None">>

WWW == <<"w", "w", "w">>

UNKNOWN == <<"u", "n", "k", "n", "o", "w", "n">>

ALL == <<"A", "L", "L">>

----------------------------------------------------------------------------
(* Bounds of the checked inputs *)

MaxNetlocLen == 4

MaxPathLen == 4

MaxFieldLen == 3

MaxTermLen == 2

MaxRows == 2

----------------------------------------------------------------------------
(* Python str methods *)

RECURSIVE SeqsUpTo(_, _)
SeqsUpTo(S, n) ==
    IF n = 0 THEN {<<>>}
    ELSE LET shorter == SeqsUpTo(S, n - 1)
         IN  shorter \cup {Append(s, c) : s \in {t \in shorter : Len(t) = n - 1}, c \in S}

Contains(s, c) == \E i \in 1..Len(s) : s[i] = c

\* s.find(c) for a set of characters, 1-based; 0 when absent
FindAny(s, cs) ==
    IF \E i \in 1..Len(s) : s[i] \in cs
    THEN CHOOSE i \in 1..Len(s) : s[i] \in cs /\ \A j \in 1..(i - 1) : s[j] \notin cs
    ELSE 0

Tail_From(s, i) == SubSeq(s, i, Len(s))

RECURSIVE LStrip(_, _)
LStrip(s, cs) ==
    IF s # <<>> /\ s[1] \in cs THEN LStrip(Tail(s), cs) ELSE s

RECURSIVE RStrip(_, _)
RStrip(s, cs) ==
    IF s # <<>> /\ s[Len(s)] \in cs THEN RStrip(SubSeq(s, 1, Len(s) - 1), cs) ELSE s

\* s.strip(cs)
StripChars(s, cs) == RStrip(LStrip(s, cs), cs)

\* s.split(d): always at least one piece, empty pieces kept
RECURSIVE Split(_, _)
Split(s, d) ==
    LET i == FindAny(s, {d})
    IN  IF i = 0 THEN <<s>>
        ELSE <<SubSeq(s, 1, i - 1)>> \o Split(Tail_From(s, i + 1), d)

----------------------------------------------------------------------------
(* urllib.parse.urlparse, as called by get_subdomain and get_url_components *)

AlphaChars == {"a", "b", "A"}

SchemeChars == AlphaChars \cup {"."}

\* url[:i] is a scheme: i > 0, first character a letter, all scheme characters
SchemeEnd(u) ==
    LET i == FindAny(u, {":"})
    IN  IF i > 1 /\ u[1] \in AlphaChars /\ \A j \in 1..(i - 1) : u[j] \in SchemeChars
        THEN i ELSE 0

ParseError == [ok |-> FALSE, netloc |-> <<>>, path |-> <<>>]

\* the path ends at the query or the fragment
PathOf(rest) ==
    LET q == FindAny(rest, {"?", "#"})
    IN  IF q = 0 THEN rest ELSE SubSeq(rest, 1, q - 1)

\* a netloc with one bracket only is an "Invalid IPv6 URL"
ParseResult(netloc, rest) ==
    IF Contains(netloc, "[") # Contains(netloc, "]") THEN ParseError
    ELSE [ok |-> TRUE, netloc |-> netloc, path |-> PathOf(rest)]

\* _splitnetloc: the netloc ends at the first of "/", "?", "#"
SplitNetloc(u) ==
    LET d == FindAny(u, {"/", "?", "#"})
    IN  IF d = 0 THEN ParseResult(u, <<>>)
        ELSE ParseResult(SubSeq(u, 1, d - 1), Tail_From(u, d))

\* the URL after its scheme
AfterScheme(u) ==
    IF SchemeEnd(u) > 0 THEN Tail_From(u, SchemeEnd(u) + 1) ELSE u

HasNetloc(u) == Len(u) >= 2 /\ u[1] = "/" /\ u[2] = "/"

urlsplit(u) ==
    IF HasNetloc(u) THEN SplitNetloc(Tail_From(u, 3)) ELSE ParseResult(<<>>, u)

\* a cell that is not a string makes urlparse raise
urlparse(u) ==
    IF u = NaN \/ u = None THEN ParseError
    ELSE urlsplit(AfterScheme(LStrip(u, {" "})))

----------------------------------------------------------------------------
(* prepare_data.get_subdomain *)

get_subdomain(u) ==
    LET parsed == urlparse(u)
        domain_parts == Split(parsed.netloc, ".")
    IN  IF ~parsed.ok THEN UNKNOWN
        ELSE IF Len(domain_parts) > 2 THEN domain_parts[1]
        ELSE WWW

(* prepare_data.get_url_components *)

Wrap(seg) == <<"/">> \o seg \o <<"/">>

\* get_url_components with lstrip in place of strip (a seeded fault)
get_url_components_lstrip(u) ==
    LET parsed == urlparse(u)
        path   == LStrip(parsed.path, {"/"})
        parts  == Split(path, "/")
    IN  IF ~parsed.ok THEN <<None, None>>
        ELSE IF path = <<>> THEN <<None, None>>
        ELSE <<IF Len(parts) > 0 THEN Wrap(parts[1]) ELSE None,
               IF Len(parts) > 1 THEN Wrap(parts[2]) ELSE None>>

get_url_components(u) ==
    LET parsed == urlparse(u)
        path   == StripChars(parsed.path, {"/"})
        parts  == Split(path, "/")
    IN  IF ~parsed.ok THEN <<None, None>>
        ELSE IF path = <<>> THEN <<None, None>>
        ELSE <<IF Len(parts) > 0 THEN Wrap(parts[1]) ELSE None,
               IF Len(parts) > 1 THEN Wrap(parts[2]) ELSE None>>

----------------------------------------------------------------------------
(* prepare_data.categorise_anchor_count *)

\* Cells of unique_anchor_text_count: a missing cell, an integer, a finite
\* float (counted in halves: 7 is 3.5), or a string.
Missing == [t |-> "nan"]

IntCell(n) == [t |-> "int", v |-> n]

FloatCell(h) == [t |-> "float", halves |-> h]

StrCell(s) == [t |-> "str", s |-> s]

isna(cell) == cell.t = "nan"

DigitVal ==
    [c \in {"0", "1", "2", "3", "4", "5", "6", "7", "8", "9"} |->
        CASE c = "0" -> 0 [] c = "1" -> 1 [] c = "2" -> 2 [] c = "3" -> 3
          [] c = "4" -> 4 [] c = "5" -> 5 [] c = "6" -> 6 [] c = "7" -> 7
          [] c = "8" -> 8 [] c = "9" -> 9]

RECURSIVE DigitsValue(_)
DigitsValue(ds) ==
    IF ds = <<>> THEN 0
    ELSE 10 * DigitsValue(SubSeq(ds, 1, Len(ds) - 1)) + DigitVal[ds[Len(ds)]]

AllDigits(ds) == ds # <<>> /\ \A i \in 1..Len(ds) : ds[i] \in DOMAIN DigitVal

\* int(count): [ok |-> FALSE] stands for ValueError
int(cell) ==
    CASE cell.t = "int"   -> [ok |-> TRUE, v |-> cell.v]
      [] cell.t = "float" -> [ok |-> TRUE,
                              v |-> IF cell.halves >= 0 THEN cell.halves \div 2
                                    ELSE -((-cell.halves) \div 2)]
      [] OTHER ->
            LET s    == StripChars(cell.s, {" "})
                neg  == s # <<>> /\ s[1] = "-"
                body == IF s # <<>> /\ s[1] \in {"-", "+"} THEN Tail(s) ELSE s
            IN  IF AllDigits(body)
                THEN [ok |-> TRUE, v |-> IF neg THEN -DigitsValue(body) ELSE DigitsValue(body)]
                ELSE [ok |-> FALSE, v |-> 0]

Band(n) ==
    IF n <= 3 THEN "1-3"
    ELSE IF n <= 5 THEN "4-5"
    ELSE IF n <= 8 THEN "6-8"
    ELSE "8+"

\* first definition (lines 40-54): a failing int() is caught
categorise_anchor_count(cell) ==
    IF isna(cell) THEN [raised |-> FALSE, value |-> "Unknown"]
    ELSE IF ~int(cell).ok THEN [raised |-> FALSE, value |-> "Unknown"]
    ELSE [raised |-> FALSE, value |-> Band(int(cell).v)]

\* second definition (lines 152-163): a failing int() propagates
categorise_anchor_count_2(cell) ==
    IF isna(cell) THEN [raised |-> FALSE, value |-> "Unknown"]
    ELSE IF ~int(cell).ok THEN [raised |-> TRUE, value |-> "ValueError"]
    ELSE [raised |-> FALSE, value |-> Band(int(cell).v)]

----------------------------------------------------------------------------
(* Tables *)

Columns(d) == DOMAIN d[1]

Ok(v) == [raised |-> FALSE, value |-> v]

Raise(e) == [raised |-> TRUE, value |-> e]

\* str(cell) of a text cell: a missing cell prints as 'nan'
str(cell) == IF cell = NaN THEN <<"n", "a", "n">> ELSE cell

Whitespace == {" "}

\* [t.strip() for t in field.split(';') if t.strip()]
StrippedTokens(field) ==
    LET pieces   == Split(field, ";")
        stripped == [i \in 1..Len(pieces) |-> StripChars(pieces[i], Whitespace)]
    IN  SelectSeq(stripped, LAMBDA t : t # <<>>)

----------------------------------------------------------------------------
(* prepare_data (lines 23-76 and 136-185) *)

\* first definition: works on a copy, categorise_anchor_count never raises
prepare_data(d) ==
    IF "target_url" \notin Columns(d) THEN Raise("KeyError")
    ELSE IF "unique_anchor_text_count" \notin Columns(d) THEN Raise("KeyError")
    ELSE Ok([i \in 1..Len(d) |->
            [subdomain |-> get_subdomain(d[i].target_url),
             anchor_variability |->
                 categorise_anchor_count(d[i].unique_anchor_text_count).value,
             url_component_1 |-> get_url_components(d[i].target_url)[1],
             url_component_2 |-> get_url_components(d[i].target_url)[2]] @@ d[i]])

\* second definition: the exception of categorise_anchor_count propagates
prepare_data_2(d) ==
    IF "target_url" \notin Columns(d) THEN Raise("KeyError")
    ELSE IF "unique_anchor_text_count" \notin Columns(d) THEN Raise("KeyError")
    ELSE IF \E i \in 1..Len(d) :
                categorise_anchor_count_2(d[i].unique_anchor_text_count).raised
    THEN Raise("ValueError")
    ELSE Ok([i \in 1..Len(d) |->
            [subdomain |-> get_subdomain(d[i].target_url),
             anchor_variability |->
                 categorise_anchor_count_2(d[i].unique_anchor_text_count).value,
             url_component_1 |-> get_url_components(d[i].target_url)[1],
             url_component_2 |-> get_url_components(d[i].target_url)[2]] @@ d[i]])

----------------------------------------------------------------------------
(* expand_anchor_texts (lines 79-102 and 187-210) *)

expand_row(row) ==
    LET anchors   == StrippedTokens(str(row.anchor_texts))
        found_ats == StrippedTokens(str(row.found_at))
    IN  [i \in 1..Len(anchors) |->
            [target_url  |-> row.target_url,
             anchor_text |-> anchors[i],
             found_at    |-> IF i <= Len(found_ats) THEN found_ats[i] ELSE <<>>]]

RECURSIVE expand_rows(_)
expand_rows(d) ==
    IF d = <<>> THEN <<>> ELSE expand_row(Head(d)) \o expand_rows(Tail(d))

expand_anchor_texts(d) ==
    IF {"target_url", "anchor_texts", "found_at"} \subseteq Columns(d)
    THEN Ok(expand_rows(d))
    ELSE Raise("KeyError")

----------------------------------------------------------------------------
(* load_data (lines 12-20) *)

NoFile == [kind |-> "none"]

Unreadable == [kind |-> "unreadable"]

Csv(rows) == [kind |-> "csv", rows |-> rows]

load_data(file) ==
    IF file.kind = "csv" THEN Ok(file.rows) ELSE Raise("RuntimeError")

----------------------------------------------------------------------------
(* Pattern matching of the tabs *)

Lower(c) == IF c = "A" THEN "a" ELSE IF c = "B" THEN "b" ELSE c

\* re.compile(term): an unbalanced parenthesis is an error
ValidRegex(term) == ~Contains(term, "(")

\* Series.str.contains(term, case=False): term is a regular expression,
\* "." stands for any character
RegexContains(text, term) ==
    \E start \in 0..(Len(text) - Len(term)) :
        \A k \in 1..Len(term) :
            term[k] = "." \/ Lower(term[k]) = Lower(text[start + k])

\* Series.str.contains(r'\|\s*\(', regex=True)
MissingPattern(text) ==
    \E i \in 1..Len(text) : \E j \in (i + 1)..Len(text) :
        /\ text[i] = "|"
        /\ text[j] = "("
        /\ \A k \in (i + 1)..(j - 1) : text[k] \in Whitespace

group_order == <<"1-3", "4-5", "6-8", "8+", "Unknown">>

Groups == {group_order[i] : i \in 1..Len(group_order)}

\* Series.value_counts().reindex(group_order, fill_value=0)
value_counts(d) ==
    [g \in Groups |-> Cardinality({i \in 1..Len(d) : d[i].anchor_variability = g})]

----------------------------------------------------------------------------
(* The script run: lines 108-134 and 213-376 *)

SearchTerms == SeqsUpTo({"a", "A", ".", "("}, MaxTermLen)

Halt(e) ==
    /\ pc' = "raised"
    /\ raised' = e

Goto(l) ==
    /\ pc' = l
    /\ UNCHANGED raised

Call(step) == called' = Append(called, step)

inputs == <<uploaded_file, local_csv, uploaded_file_2>>

tabs == <<selected_subdomain, filtered_df, anchor_counts, search_term,
          search_results, missing_anchor_df>>

\* lines 113-119: the uploaded file is loaded, a failure is shown and stops
UploadedFileLoad ==
    /\ pc = "start"
    /\ uploaded_file # NoFile
    /\ Call("load_data")
    /\ IF load_data(uploaded_file).raised
       THEN /\ Goto("stopped")
            /\ UNCHANGED df
       ELSE /\ Goto("prepare")
            /\ df' = load_data(uploaded_file).value
    /\ UNCHANGED <<inputs, df_expanded, tabs>>

\* lines 120-127: no upload, the local file exists
LocalCsvLoad ==
    /\ pc = "start"
    /\ uploaded_file = NoFile
    /\ local_csv # NoFile
    /\ Call("load_data")
    /\ IF load_data(local_csv).raised
       THEN /\ Goto("stopped")
            /\ UNCHANGED df
       ELSE /\ Goto("prepare")
            /\ df' = load_data(local_csv).value
    /\ UNCHANGED <<inputs, df_expanded, tabs>>

\* lines 128-130: no file at all
NoFileStop ==
    /\ pc = "start"
    /\ uploaded_file = NoFile
    /\ local_csv = NoFile
    /\ Goto("stopped")
    /\ UNCHANGED <<inputs, df, df_expanded, tabs, called>>

\* line 133
Prepare ==
    /\ pc = "prepare"
    /\ Call("prepare_data")
    /\ IF prepare_data(df).raised
       THEN /\ Halt(prepare_data(df).value)
            /\ UNCHANGED df
       ELSE /\ Goto("expand")
            /\ df' = prepare_data(df).value
    /\ UNCHANGED <<inputs, df_expanded, tabs>>

\* line 134
Expand ==
    /\ pc = "expand"
    /\ Call("expand_anchor_texts")
    /\ IF expand_anchor_texts(df).raised
       THEN /\ Halt(expand_anchor_texts(df).value)
            /\ UNCHANGED df_expanded
       ELSE /\ Goto("uploader_2")
            /\ df_expanded' = expand_anchor_texts(df).value
    /\ UNCHANGED <<inputs, df, tabs>>

\* lines 218-219: the second uploader; load_data is not guarded here
SecondUploadLoad ==
    /\ pc = "uploader_2"
    /\ uploaded_file_2 # NoFile
    /\ Call("load_data_2")
    /\ IF load_data(uploaded_file_2).raised
       THEN /\ Halt(load_data(uploaded_file_2).value)
            /\ UNCHANGED df
       ELSE /\ Goto("prepare_2")
            /\ df' = load_data(uploaded_file_2).value
    /\ UNCHANGED <<inputs, df_expanded, tabs>>

\* lines 365-376
PleaseUpload ==
    /\ pc = "uploader_2"
    /\ uploaded_file_2 = NoFile
    /\ Goto("done")
    /\ UNCHANGED <<inputs, df, df_expanded, tabs, called>>

\* line 220
SecondPrepare ==
    /\ pc = "prepare_2"
    /\ Call("prepare_data_2")
    /\ IF prepare_data_2(df).raised
       THEN /\ Halt(prepare_data_2(df).value)
            /\ UNCHANGED df
       ELSE /\ Goto("expand_2")
            /\ df' = prepare_data_2(df).value
    /\ UNCHANGED <<inputs, df_expanded, tabs>>

\* line 221
SecondExpand ==
    /\ pc = "expand_2"
    /\ Call("expand_anchor_texts_2")
    /\ IF expand_anchor_texts(df).raised
       THEN /\ Halt(expand_anchor_texts(df).value)
            /\ UNCHANGED df_expanded
       ELSE /\ Goto("sidebar")
            /\ df_expanded' = expand_anchor_texts(df).value
    /\ UNCHANGED <<inputs, df, tabs>>

\* lines 224-234: the subdomain filter
Sidebar ==
    /\ pc = "sidebar"
    /\ \E s \in {ALL} \cup {df[i].subdomain : i \in 1..Len(df)} :
          /\ selected_subdomain' = s
          /\ filtered_df' = IF s # ALL
                            THEN SelectSeq(df, LAMBDA r : r.subdomain = s)
                            ELSE df
    /\ Goto("tab1")
    /\ Call("sidebar")
    /\ UNCHANGED <<inputs, df, df_expanded, anchor_counts, search_term,
                   search_results, missing_anchor_df>>

\* lines 239-260: value_counts of anchor_variability, reindexed on group_order
\* (the drill-down tables of lines 263-310 only display selections of
\* filtered_df)
Tab1 ==
    /\ pc = "tab1"
    /\ anchor_counts' = value_counts(filtered_df)
    /\ Goto("tab2")
    /\ Call("tab1")
    /\ UNCHANGED <<inputs, df, df_expanded, selected_subdomain, filtered_df,
                   search_term, search_results, missing_anchor_df>>

\* lines 312-333: an empty DataFrame([]) has no target_url column, and a
\* column of missing values only has no .str accessor
Tab2 ==
    /\ pc = "tab2"
    /\ Call("tab2")
    /\ \E term \in SearchTerms :
          /\ search_term' = term
          /\ IF term = <<>>
             THEN /\ Goto("tab3")
                  /\ UNCHANGED search_results
             ELSE IF df_expanded = <<>>
             THEN /\ Halt("KeyError")
                  /\ UNCHANGED search_results
             ELSE IF \A i \in 1..Len(df_expanded) : df_expanded[i].target_url = NaN
             THEN /\ Halt("AttributeError")
                  /\ UNCHANGED search_results
             ELSE IF ~ValidRegex(term)
             THEN /\ Halt("re.error")
                  /\ UNCHANGED search_results
             ELSE /\ Goto("tab3")
                  /\ search_results' =
                        SelectSeq(df_expanded,
                                  LAMBDA r : /\ r.target_url # NaN
                                             /\ RegexContains(r.target_url, term))
    /\ UNCHANGED <<inputs, df, df_expanded, selected_subdomain, filtered_df,
                   anchor_counts, missing_anchor_df>>

\* lines 335-363: the selection of the display columns fails on a missing one
Tab3 ==
    /\ pc = "tab3"
    /\ Call("tab3")
    /\ LET found == SelectSeq(df, LAMBDA r : MissingPattern(str(r.anchor_texts)))
       IN  /\ missing_anchor_df' = found
           /\ IF found # <<>> /\ "total_inlinks" \notin Columns(df)
              THEN Halt("KeyError")
              ELSE Goto("done")
    /\ UNCHANGED <<inputs, df, df_expanded, selected_subdomain, filtered_df,
                   anchor_counts, search_term, search_results>>

Next ==
    \/ UploadedFileLoad
    \/ LocalCsvLoad
    \/ NoFileStop
    \/ Prepare
    \/ Expand
    \/ SecondUploadLoad
    \/ PleaseUpload
    \/ SecondPrepare
    \/ SecondExpand
    \/ Sidebar
    \/ Tab1
    \/ Tab2
    \/ Tab3

----------------------------------------------------------------------------
(* Input files *)

AllColumns ==
    {"target_url", "anchor_texts", "unique_anchor_text_count", "total_inlinks",
     "found_at"}

Row(u, a, c, f) ==
    [target_url |-> u, anchor_texts |-> a, unique_anchor_text_count |-> c,
     total_inlinks |-> IntCell(1), found_at |-> f]

Restrict(row, cols) == [c \in cols |-> row[c]]

\* the row of the specification's example:
\* scheme://shop.example.com/a/b/, 'Buy Now; ', 2, 'p1;p2'
ExampleUrl == <<"a", ":", "/", "/", "b", ".", "a", ".", "b", "/", "a", "/", "b", "/">>

ExampleRow == Row(ExampleUrl, <<"x", ";", " ">>, IntCell(2), <<"p", ";", "q">>)

\* a cell read from a CSV file is never the empty string: it is missing
TextCells(chars, n) == (SeqsUpTo(chars, n) \ {<<>>}) \cup {NaN}

Started ==
    /\ pc = "start"
    /\ df = <<>>
    /\ df_expanded = <<>>
    /\ selected_subdomain = None
    /\ filtered_df = <<>>
    /\ anchor_counts = <<>>
    /\ search_term = None
    /\ search_results = <<>>
    /\ missing_anchor_df = <<>>
    /\ raised = ""
    /\ called = <<>>

\* every way through the script, on the example row
BaseFiles == {NoFile, Unreadable, Csv(<<ExampleRow>>)}

InitBase ==
    /\ uploaded_file \in BaseFiles
    /\ local_csv \in BaseFiles
    /\ uploaded_file_2 \in BaseFiles
    /\ Started

\* files that lack columns
ColumnSets == (SUBSET AllColumns) \ {{}}

RunFiles ==
    {NoFile, Unreadable} \cup {Csv(<<Restrict(ExampleRow, cols)>>) : cols \in ColumnSets}

Init ==
    /\ uploaded_file \in RunFiles
    /\ local_csv \in BaseFiles
    /\ uploaded_file_2 \in RunFiles
    /\ Started

Spec == Init /\ [][Next]_vars

\* target URLs
Prefixes == {<<>>, <<"/", "/">>, <<"a", ":", "/", "/">>, <<"a", ":">>}

NetlocChars == {"a", "b", ".", "@", "["}

PathChars == {"a", "b", "/", "?"}

HostHeavy ==
    {p \o n \o t : p \in Prefixes, n \in SeqsUpTo(NetlocChars, MaxNetlocLen),
                   t \in {<<>>, <<"/", "a">>}}

PathHeavy ==
    {p \o n \o t : p \in Prefixes, n \in {<<>>, <<"a", ".", "b">>},
                   t \in SeqsUpTo(PathChars, MaxPathLen)}

\* URLs with a user-info part
UserInfoUrls ==
    { <<"a", ":", "/", "/", "a", "@", "b", ".", "a", ".", "b", "/">>,
      <<"a", ":", "/", "/", "a", ".", "b", "@", "a", ".", "b", "/", "a">> }

UrlInputs ==
    ((HostHeavy \cup PathHeavy) \ {<<>>}) \cup UserInfoUrls \cup {ExampleUrl, NaN}

InitUrl ==
    \/ InitBase
    \/ /\ \E u \in UrlInputs :
             uploaded_file = Csv(<<Row(u, <<"x">>, IntCell(2), <<"p">>)>>)
       /\ local_csv = NoFile
       /\ uploaded_file_2 = NoFile
       /\ Started

SpecUrl == InitUrl /\ [][Next]_vars

\* cells of unique_anchor_text_count
CountCells ==
    {Missing}
        \cup {IntCell(n) : n \in -1..10}
        \cup {FloatCell(h) : h \in {-1, 5, 6, 7, 8, 10, 11, 16, 17, 18}}
        \cup {StrCell(t) : t \in SeqsUpTo({"3", "9", "-", "x"}, 2) \ {<<>>}}

InitBucket ==
    \/ InitBase
    \/ /\ \E c \in CountCells :
             /\ uploaded_file = Csv(<<Row(ExampleUrl, <<"x">>, c, <<"p">>)>>)
             /\ uploaded_file_2 = uploaded_file
       /\ local_csv = NoFile
       /\ Started

SpecBucket == InitBucket /\ [][Next]_vars

\* anchor_texts and found_at
AnchorChars == {"x", "y", ";", " "}

FoundChars == {"p", "q", ";"}

OtherUrl == <<"/", "a">>

ExpandTables ==
    {<<Row(ExampleUrl, a, IntCell(2), f)>> :
        a \in TextCells(AnchorChars, MaxFieldLen), f \in TextCells(FoundChars, MaxFieldLen)}
    \cup
    {<<Row(ExampleUrl, a, IntCell(2), <<"p">>), Row(OtherUrl, b, IntCell(2), <<"q">>)>> :
        a \in {<<"x">>, <<" ">>, <<";">>}, b \in {<<"y">>, <<" ">>}}

InitExpand ==
    \/ InitBase
    \/ /\ \E t \in ExpandTables : uploaded_file = Csv(t)
       /\ local_csv = NoFile
       /\ uploaded_file_2 = NoFile
       /\ Started

SpecExpand == InitExpand /\ [][Next]_vars

\* tables of the dashboard
DashRows ==
    {Row(u, a, c, <<"p", ";", "q">>) :
        u \in {<<"/", "/", "a", ".", "b", ".", "a", "/", "A">>, <<"/", "a">>},
        a \in {<<"x", ";", " ">>, <<"x", "|", " ", "(">>},
        c \in {Missing, IntCell(9)}}

\* and a table whose only target_url is missing
DashTables ==
    (SeqsUpTo(DashRows, MaxRows) \ {<<>>})
        \cup {<<Row(NaN, <<"x">>, Missing, <<"p">>)>>}

InitDash ==
    \/ InitBase
    \/ /\ uploaded_file = Csv(<<ExampleRow>>)
       /\ local_csv = NoFile
       /\ \E t \in DashTables : uploaded_file_2 = Csv(t)
       /\ Started

SpecDash == InitDash /\ [][Next]_vars

----------------------------------------------------------------------------
(* Properties *)

Has(step) == \E i \in 1..Len(called) : called[i] = step

\* the rows that carry the derived columns of prepare_data
PreparedRows == {i \in 1..Len(df) : "subdomain" \in DOMAIN df[i]}

\* df_expanded is the expansion of the current df
ExpandedPair == pc \in {"uploader_2", "sidebar", "tab1", "tab2", "tab3"}

\* [t.strip() for t in field.split(';')], empty entries kept in place
Entries(field) ==
    LET pieces == Split(field, ";")
    IN  [i \in 1..Len(pieces) |-> StripChars(pieces[i], Whitespace)]

\* C1: the expansion of a row is never empty: a row whose anchor_texts has
\* no token yields exactly one record with its target_url and an empty
\* anchor_text, so every target_url of the table is in the expanded table.
C1_ExpandNeverEmpty ==
    ExpandedPair =>
        /\ \A i \in 1..Len(df) :
              \E j \in 1..Len(df_expanded) :
                  df_expanded[j].target_url = df[i].target_url
        /\ (Len(df) = 1 /\ \A k \in 1..Len(Entries(str(df[1].anchor_texts))) :
                               Entries(str(df[1].anchor_texts))[k] = <<>>)
              => /\ Len(df_expanded) = 1
                 /\ df_expanded[1].target_url = df[1].target_url
                 /\ df_expanded[1].anchor_text = <<>>

\* the records the positional pairing gives for one row
PositionalPairs(row) ==
    LET A == Entries(row.anchor_texts)
        F == Entries(row.found_at)
        all == [i \in 1..Len(A) |->
                   [target_url  |-> row.target_url,
                    anchor_text |-> A[i],
                    found_at    |-> IF i <= Len(F) THEN F[i] ELSE <<>>]]
    IN  SelectSeq(all, LAMBDA r : r.anchor_text # <<>>)

\* C2: the record of the i-th entry of anchor_texts carries the i-th entry
\* of found_at, the empty string when found_at has no i-th entry; an empty
\* entry in either field does not shift the later positions.
C2_PositionalPairing ==
    (/\ ExpandedPair
     /\ Len(df) = 1
     /\ df[1].anchor_texts # NaN
     /\ df[1].found_at # NaN)
        => df_expanded = PositionalPairs(df[1])

ExpectedBucket(cell) ==
    IF isna(cell) \/ ~int(cell).ok THEN "Unknown"
    ELSE LET n == int(cell).v
         IN  CASE n <= 3 -> "1-3"
               [] n >= 4 /\ n <= 5 -> "4-5"
               [] n >= 6 /\ n <= 8 -> "6-8"
               [] n > 8 -> "8+"

\* C3: categorise_anchor_count never raises and returns 'Unknown' for a
\* missing or non-numeric count and the band of n for a count that coerces
\* to the integer n, in both definitions of prepare_data.
C3_BucketTotal ==
    /\ raised # "ValueError"
    /\ \A i \in PreparedRows :
          df[i].anchor_variability = ExpectedBucket(df[i].unique_anchor_text_count)

\* ParseResult.hostname: the netloc after the last "@", up to the port
HostOf(u) ==
    LET netloc == urlparse(u).netloc
        ats    == {i \in 1..Len(netloc) : netloc[i] = "@"}
        last   == IF ats = {} THEN 0 ELSE CHOOSE i \in ats : \A j \in ats : j <= i
        hp     == Tail_From(netloc, last + 1)
        colon  == FindAny(hp, {":"})
    IN  IF colon = 0 THEN hp ELSE SubSeq(hp, 1, colon - 1)

HostLabels(u) == Split(HostOf(u), ".")

ParseFails(u) == ~urlparse(u).ok

\* C4: get_subdomain returns 'unknown' for every URL that fails to parse,
\* a URL whose host is missing (empty) included, and never 'www' for it.
C4_UnknownOnParseFailure ==
    \A i \in PreparedRows :
        (ParseFails(df[i].target_url) \/ HostOf(df[i].target_url) = <<>>)
            => df[i].subdomain = UNKNOWN

\* a valid URL: it parses and every label of its host is non-empty
ValidUrl(u) ==
    /\ ~ParseFails(u)
    /\ \A k \in 1..Len(HostLabels(u)) : HostLabels(u)[k] # <<>>

\* C5: for a valid URL, get_subdomain is the first label of a host of
\* three or more labels and 'www' for a host of one or two labels; the
\* user-info and port parts of the URL do not matter.
C5_SubdomainFromHost ==
    \A i \in PreparedRows :
        ValidUrl(df[i].target_url)
            => IF Len(HostLabels(df[i].target_url)) >= 3
               THEN df[i].subdomain = HostLabels(df[i].target_url)[1]
               ELSE df[i].subdomain = WWW

\* the distinct target URLs of a table and the row of their first occurrence
FirstRow(d, u) ==
    d[CHOOSE i \in 1..Len(d) :
          d[i].target_url = u /\ \A j \in 1..(i - 1) : d[j].target_url # u]

DistinctUrls(d) == {d[i].target_url : i \in 1..Len(d)}

\* C6: the histogram counts every distinct target_url once, in the bucket
\* of its first row, and the counts sum to the number of distinct URLs.
C6_HistogramCountsDistinctUrls ==
    Has("tab1") =>
        \A g \in Groups :
            anchor_counts[g] =
                Cardinality({u \in DistinctUrls(filtered_df) :
                                FirstRow(filtered_df, u).anchor_variability = g})

\* C7: the missing-anchor report is exactly the expanded records whose
\* anchor_text is empty after trimming; for the example row ('Buy Now; '
\* with two found_at entries) it is the second expanded record.
C7_ReportFromExpandedTable ==
    (Has("tab3") /\ pc = "done") =>
        /\ missing_anchor_df =
              SelectSeq(df_expanded,
                        LAMBDA r : StripChars(r.anchor_text, Whitespace) = <<>>)
        /\ (/\ Len(df) = 1
            /\ df[1].anchor_texts = ExampleRow.anchor_texts
            /\ df[1].found_at = ExampleRow.found_at)
              => missing_anchor_df =
                     <<[target_url  |-> df[1].target_url,
                        anchor_text |-> <<>>,
                        found_at    |-> <<"q">>]>>

\* text contains term as a literal substring, ignoring case
LiteralContains(text, term) ==
    \E start \in 0..(Len(text) - Len(term)) :
        \A k \in 1..Len(term) : Lower(term[k]) = Lower(text[start + k])

\* C8: the search returns, in table order, exactly the rows whose
\* target_url contains the text literally (ignoring case), every row for
\* the empty text, and a search never ends in an error.
C8_SearchLiteralSubstring ==
    /\ raised # "re.error"
    /\ (Has("tab2") /\ pc \in {"tab3", "done"}) =>
           search_results =
               SelectSeq(df_expanded,
                         LAMBDA r : /\ r.target_url # NaN
                                    /\ LiteralContains(r.target_url, search_term))

\* The result the specification describes for get_url_components, stated on
\* positions of the parsed path: first .. last are the first and the last
\* character that is not "/", the first segment ends at the first "/" after
\* first, the second one at the next "/" (or at last).
ExpectedComponents(u) ==
    LET p     == urlparse(u).path
        solid == {i \in 1..Len(p) : p[i] # "/"}
    IN  IF ParseFails(u) \/ solid = {} THEN <<None, None>>
        ELSE LET first == CHOOSE i \in solid : \A j \in solid : i <= j
                 last  == CHOOSE i \in solid : \A j \in solid : j <= i
                 cuts  == {i \in first..last : p[i] = "/"}
                 e1    == IF cuts = {} THEN last + 1
                          ELSE CHOOSE i \in cuts : \A j \in cuts : i <= j
                 cuts2 == {i \in cuts : i > e1}
                 e2    == IF cuts2 = {} THEN last + 1
                          ELSE CHOOSE i \in cuts2 : \A j \in cuts2 : i <= j
             IN  <<Wrap(SubSeq(p, first, e1 - 1)),
                   IF cuts = {} THEN None ELSE Wrap(SubSeq(p, e1 + 1, e2 - 1))>>

Degenerate == <<"/", "/">>

ComponentsOf(row) == <<row.url_component_1, row.url_component_2>>

\* C9 as stated: get_url_components returns (None, None) for an empty path
\* or a parse failure, else the wrapped first and second segment, and no
\* returned component is the degenerate '//'.
C9_NoDegenerateComponent ==
    \A i \in PreparedRows :
        /\ ComponentsOf(df[i]) = ExpectedComponents(df[i].target_url)
        /\ df[i].url_component_1 # Degenerate
        /\ df[i].url_component_2 # Degenerate

\* C9 amended: the same result; the first component is never '//', the second
\* one is '//' exactly when the stripped path has two consecutive slashes
\* right after its first segment.
C9_ComponentsAsSpecified ==
    \A i \in PreparedRows :
        /\ ComponentsOf(df[i]) = ExpectedComponents(df[i].target_url)
        /\ df[i].url_component_1 # Degenerate
        /\ (df[i].url_component_2 = Degenerate
              <=> LET path  == StripChars(urlparse(df[i].target_url).path, {"/"})
                      slash == FindAny(path, {"/"})
                  IN  /\ ~ParseFails(df[i].target_url)
                      /\ slash > 0
                      /\ path[slash + 1] = "/")

C9_Witness ==
    \E i \in PreparedRows :
        /\ df[i].url_component_1 = <<"/", "a", "/">>
        /\ df[i].url_component_2 = Degenerate

\* the columns the specification requires of the input file
RequiredColumns == {"target_url", "anchor_texts", "found_at"}

Usable(file) == file.kind = "csv" /\ RequiredColumns \subseteq Columns(file.rows)

FirstFile == IF uploaded_file # NoFile THEN uploaded_file ELSE local_csv

\* C10: a file that cannot be read or lacks a required column is fatal: no
\* prepare or expand step runs on it, in either load sequence, and without
\* any file nothing is prepared.
C10_LoadFailureIsFatal ==
    /\ Has("prepare_data") => Usable(FirstFile)
    /\ Has("prepare_data_2") => Usable(uploaded_file_2)
    /\ Has("expand_anchor_texts") => Usable(FirstFile)
    /\ Has("expand_anchor_texts_2") => Usable(uploaded_file_2)

====
